---------------------------- MODULE Spec2Model ----------------------------
(***************************************************************************)
(* Model of src/recommend_similar_tasks/recommender_sys_for_input.py:     *)
(* the text cleaner, the TF-IDF / cosine similarity builder, the          *)
(* recommender and the frame preparer, together with the table object     *)
(* the caller passes in and keeps between calls.                          *)
(*                                                                         *)
(* A text is a sequence of one-character strings.  A table (DataFrame)    *)
(* is a record [columns, index, data]: the column names, the row labels   *)
(* and the rows, each row a sequence of values aligned with columns.      *)
(***************************************************************************)
EXTENDS Integers, Sequences, FiniteSets, TLC

VARIABLES
    caller,         \* the DataFrame object the caller owns and passes as df
    orig,           \* history: the caller's table as first constructed
    before,         \* history: the caller's table when the current call began
    pc,             \* position inside initialize_frame_for_recommender
    title,          \* argument title
    top_n,          \* argument top_n
    new_string,     \* argument new_string
    df,             \* the local name df: "caller" (the caller's object) or "work"
    work,           \* the object df.append returned (NoFrame before line 144)
    cleaned_title,  \* local cleaned_title
    cosine_sim,     \* the matrix returned by dataframe_column_to_cosine_sim
    idx,            \* indices[title]: the row positions labelled title
    result,         \* how the call ended: returned rows or the error raised
    steps,          \* history: the steps the current call has executed
    x,              \* cleaner on its own: the input text
    once,           \* cleaner on its own: cleaner(x)
    twice,          \* cleaner on its own: cleaner(cleaner(x))
    stage           \* cleaner on its own: "input", "once", "twice"

callVars == <<caller, orig, before, pc, title, top_n, new_string, df, work,
              cleaned_title, cosine_sim, idx, result, steps>>
cleanVars == <<x, once, twice, stage>>
vars == <<callVars, cleanVars>>

----------------------------------------------------------------------------
(* Bounds of the model.                                                    *)

\* the largest number of rows of the table the caller constructs
MaxRows == 3

\* the largest number of pieces concatenated into an input of cleaner
MaxPieces == 3

----------------------------------------------------------------------------
(* Characters and strings.                                                 *)

LowerLetters ==
    <<"a","b","c","d","e","f","g","h","i","j","k","l","m",
      "n","o","p","q","r","s","t","u","v","w","x","y","z">>

UpperLetters ==
    <<"A","B","C","D","E","F","G","H","I","J","K","L","M",
      "N","O","P","Q","R","S","T","U","V","W","X","Y","Z">>

Digits == {"0","1","2","3","4","5","6","7","8","9"}

Range(s) == {s[i] : i \in DOMAIN s}

UpperSet == Range(UpperLetters)

AlnumSet == Range(LowerLetters) \cup Range(UpperLetters) \cup Digits

\* one character of str.lower()
LowerChar(c) ==
    IF c \in UpperSet
    THEN LowerLetters[CHOOSE i \in DOMAIN UpperLetters : UpperLetters[i] = c]
    ELSE c

\* line 24: str(text).lower()
str_lower(text) == [i \in DOMAIN text |-> LowerChar(text[i])]

\* the character class [A-Za-z0-9] of line 26
IsAlnum(c) == c \in AlnumSet

\* line 26: re.sub('[^A-Za-z0-9]', ' ', text)
re_sub(text) == [i \in DOMAIN text |-> IF IsAlnum(text[i]) THEN text[i] ELSE " "]

\* str.split(): the maximal runs of non-space characters, in order
RECURSIVE SplitFrom(_, _, _)
SplitFrom(text, i, cur) ==
    IF i > Len(text)
    THEN IF cur = <<>> THEN <<>> ELSE <<cur>>
    ELSE IF text[i] = " "
         THEN (IF cur = <<>> THEN <<>> ELSE <<cur>>) \o SplitFrom(text, i + 1, <<>>)
         ELSE SplitFrom(text, i + 1, Append(cur, text[i]))

split(text) == SplitFrom(text, 1, <<>>)

\* the contractions nltk's Treebank tokenizer splits in a text of letters,
\* digits and spaces (CONTRACTIONS2 without the apostrophe forms)
Contractions ==
    { << <<"c","a","n","n","o","t">>, <<"c","a","n">>, <<"n","o","t">> >>,
      << <<"g","i","m","m","e">>,     <<"g","i","m">>, <<"m","e">> >>,
      << <<"g","o","n","n","a">>,     <<"g","o","n">>, <<"n","a">> >>,
      << <<"g","o","t","t","a">>,     <<"g","o","t">>, <<"t","a">> >>,
      << <<"l","e","m","m","e">>,     <<"l","e","m">>, <<"m","e">> >>,
      << <<"w","a","n","n","a">>,     <<"w","a","n">>, <<"n","a">> >> }

SplitContraction(word) ==
    IF \E c \in Contractions : c[1] = word
    THEN LET c == CHOOSE c \in Contractions : c[1] = word IN <<c[2], c[3]>>
    ELSE <<word>>

RECURSIVE Flatten(_)
Flatten(ss) == IF ss = <<>> THEN <<>> ELSE Head(ss) \o Flatten(Tail(ss))

\* line 27: word_tokenize(text), for a text of letters, digits and spaces
word_tokenize(text) ==
    LET words == split(text)
    IN  Flatten([i \in DOMAIN words |-> SplitContraction(words[i])])

\* stopwords.words('english'): the words of nltk's list that the texts of
\* this model can produce
stopwords_english ==
    { <<"a">>, <<"s">>, <<"t">>, <<"i">>, <<"d">>, <<"m">>, <<"o">>, <<"y">>,
      <<"a","t">>, <<"a","s">>, <<"a","m">>, <<"a","n">>, <<"m","e">>,
      <<"n","o">>, <<"o","n">>, <<"t","o">>, <<"s","o">>, <<"d","o">>,
      <<"i","s">>, <<"i","t">>, <<"i","n">>,
      <<"c","a","n">>, <<"n","o","t">>, <<"t","h","e">>, <<"d","o","n">>,
      <<"a","n","d">>, <<"t","o","o">>, <<"n","o","r">> }

\* line 28: [token for token in text if token not in stopwords.words('english')]
RECURSIVE RemoveStopwords(_)
RemoveStopwords(tokens) ==
    IF tokens = <<>> THEN <<>>
    ELSE IF Head(tokens) \in stopwords_english
         THEN RemoveStopwords(Tail(tokens))
         ELSE <<Head(tokens)>> \o RemoveStopwords(Tail(tokens))

\* line 31: " ".join(text)
RECURSIVE join(_)
join(tokens) ==
    IF tokens = <<>> THEN <<>>
    ELSE IF Len(tokens) = 1 THEN Head(tokens)
         ELSE Head(tokens) \o <<" ">> \o join(Tail(tokens))

\* a slip in cleaner: the stop-words are removed before the tokenizer has
\* split the contractions
cleaner_filter_first(text) ==
    LET words == RemoveStopwords(split(re_sub(str_lower(text))))
    IN  join(Flatten([i \in DOMAIN words |-> SplitContraction(words[i])]))

\* lines 12-31
cleaner(text) == join(RemoveStopwords(word_tokenize(re_sub(str_lower(text)))))


----------------------------------------------------------------------------
(* Tables.                                                                 *)

NoFrame == [columns |-> <<>>, index |-> <<>>, data |-> <<>>]

\* the labels 0 .. n-1 of a dense row index
RangeIndex(n) == [i \in 1..n |-> i - 1]

HasColumn(t, name) == \E p \in DOMAIN t.columns : t.columns[p] = name

ColPos(t, name) == CHOOSE p \in DOMAIN t.columns : t.columns[p] = name

\* df[name].tolist()
Column(t, name) == [i \in DOMAIN t.data |-> t.data[i][ColPos(t, name)]]

\* df[name] = values: overwrites the column, or adds it as the last one
SetColumn(t, name, values) ==
    IF HasColumn(t, name)
    THEN [t EXCEPT !.data =
            [i \in DOMAIN t.data |-> [t.data[i] EXCEPT ![ColPos(t, name)] = values[i]]]]
    ELSE [t EXCEPT !.columns = Append(t.columns, name),
                   !.data = [i \in DOMAIN t.data |-> Append(t.data[i], values[i])]]

\* line 94: df.reset_index(inplace=True, drop=True)
reset_index(t) == [t EXCEPT !.index = RangeIndex(Len(t.data))]

\* line 141: the four values of the query row
new_row_values(ttl) == <<999, ttl, "0", "You want to?">>

\* line 141: pd.DataFrame takes the row only when the table has as many
\* columns as the row has values
new_row_fits(t) == Len(t.columns) = Len(new_row_values(<<>>))

\* line 144: df.append(new_row, ignore_index=True) returns a new table
append(t, row) ==
    [columns |-> t.columns,
     index   |-> RangeIndex(Len(t.data) + 1),
     data    |-> Append(t.data, row)]

----------------------------------------------------------------------------
(* Similarity builder: TfidfVectorizer(stop_words='english') and           *)
(* linear_kernel.  Weights are fixed-point (idf times 10); a similarity is *)
(* kept as the square of the cosine on a scale of 0 .. 1000, which orders  *)
(* the rows as the cosine does, since no cosine here is negative.          *)

\* sklearn's ENGLISH_STOP_WORDS: the words of the list that the texts of
\* this model can produce
sklearn_stop_words ==
    { <<"t","h","e">>, <<"c","a","l","l">>, <<"s","y","s","t","e","m">>,
      <<"c","a","n">>, <<"n","o","t">>, <<"m","e">>, <<"a","t">>, <<"a","s">>,
      <<"c","a","n","n","o","t">> }

\* the vectorizer's analyzer: lower-case, token_pattern \b\w\w+\b, stop-words
analyze(doc) ==
    SelectSeq(split(re_sub(str_lower(doc))),
              LAMBDA w : Len(w) >= 2 /\ w \notin sklearn_stop_words)

\* the analyzed documents of the corpus, in order
RECURSIVE build_analyzer(_)
build_analyzer(corpus) ==
    IF corpus = <<>> THEN <<>>
    ELSE <<analyze(Head(corpus))>> \o build_analyzer(Tail(corpus))

\* the vocabulary fit_transform learns from the analyzed documents
vocabulary(docs) == UNION {Range(docs[i]) : i \in DOMAIN docs}

\* term frequency of term t in an analyzed document
tf(doc, t) == Cardinality({k \in DOMAIN doc : doc[k] = t})

\* the number of documents holding term t
doc_freq(docs, t) == Cardinality({i \in DOMAIN docs : tf(docs[i], t) > 0})

\* round(10 * (ln((1 + n) / (1 + d)) + 1)) for n documents and document
\* frequency d: sklearn's smoothed idf
IdfTable ==
    << <<10>>,
       <<14, 10>>,
       <<17, 13, 10>>,
       <<19, 15, 12, 10>>,
       <<21, 17, 14, 12, 10>>,
       <<23, 18, 16, 13, 12, 10>>,
       <<24, 20, 17, 15, 13, 11, 10>>,
       <<25, 21, 18, 16, 14, 13, 11, 10>> >>

idf(docs, t) == IdfTable[Len(docs)][doc_freq(docs, t)]

\* the tf-idf weight of term t in document i, before normalisation
weight(docs, i, t) == tf(docs[i], t) * idf(docs, t)

RECURSIVE SumOver(_, _)
SumOver(S, f) ==
    IF S = {} THEN 0
    ELSE LET e == CHOOSE e \in S : TRUE IN f[e] + SumOver(S \ {e}, f)

\* the dot product of the weight vectors of documents i and j; only the
\* terms of document i can contribute
dot(docs, i, j) ==
    LET V == Range(docs[i])
    IN  SumOver(V, [t \in V |-> weight(docs, i, t) * weight(docs, j, t)])

\* one entry of linear_kernel over the L2-normalised rows; a row with no
\* term is left a zero vector by the normaliser
linear_kernel(docs, i, j) ==
    LET ni == dot(docs, i, i)
        nj == dot(docs, j, j)
        d  == dot(docs, i, j)
    IN  IF ni = 0 \/ nj = 0 THEN 0 ELSE (d * d * 1000) \div (ni * nj)

\* line 57: fit_transform raises ValueError on an empty vocabulary
empty_vocabulary(corpus) == vocabulary(build_analyzer(corpus)) = {}

\* lines 51-68: the cosine similarity matrix of the column
dataframe_column_to_cosine_sim(t, name) ==
    LET docs == build_analyzer(Column(t, name))
    IN  [i \in DOMAIN docs |-> [j \in DOMAIN docs |-> linear_kernel(docs, i, j)]]

----------------------------------------------------------------------------
(* Recommender: the parts of get_recommendations.                          *)

\* a slip in the upper assert: top_n = 20 is let through
valid_top_n_inclusive(n) == n <= 20 /\ n > 1

\* lines 87-91: the two asserts on top_n
valid_top_n(n) == n < 20 /\ n > 1

\* lines 97-100: indices[title], the 0-based positions of the rows whose
\* column value is the title (one position, several, or none)
indices(t, column, ttl) ==
    LET col == Column(t, column)
    IN  SelectSeq(RangeIndex(Len(col)), LAMBDA p : col[p + 1] = ttl)

\* line 103: list(enumerate(cosine_sim[idx]))
enumerate_scores(sim, i) == [j \in DOMAIN sim[i + 1] |-> <<j - 1, sim[i + 1][j]>>]

\* sorted(..., reverse=True) is stable: e goes after every entry whose
\* score is not smaller
RECURSIVE InsertDesc(_, _)
InsertDesc(s, e) ==
    IF s = <<>> THEN <<e>>
    ELSE IF Head(s)[2] >= e[2]
         THEN <<Head(s)>> \o InsertDesc(Tail(s), e)
         ELSE <<e>> \o s

\* a slip in the sort: reverse=True left out, so the scores ascend
RECURSIVE InsertAsc(_, _)
InsertAsc(s, e) ==
    IF s = <<>> THEN <<e>>
    ELSE IF Head(s)[2] <= e[2]
         THEN <<Head(s)>> \o InsertAsc(Tail(s), e)
         ELSE <<e>> \o s

RECURSIVE sorted_asc(_)
sorted_asc(s) ==
    IF s = <<>> THEN <<>>
    ELSE InsertAsc(sorted_asc(SubSeq(s, 1, Len(s) - 1)), s[Len(s)])

RECURSIVE sorted_desc(_)
\* line 104: sorted(sim_scores, key=lambda x: x[1], reverse=True)
sorted_desc(s) ==
    IF s = <<>> THEN <<>>
    ELSE InsertDesc(sorted_desc(SubSeq(s, 1, Len(s) - 1)), s[Len(s)])

\* line 107: sim_scores[1:top_n+1]
top_slice(s, n) == SubSeq(s, 2, IF n + 1 < Len(s) THEN n + 1 ELSE Len(s))

\* lines 103-110: the positions of the rows to return
item_indices(sim, i, n) ==
    LET kept == top_slice(sorted_desc(enumerate_scores(sim, i)), n)
    IN  [k \in DOMAIN kept |-> kept[k][1]]

\* line 113: df[['ID', column, 'Deadline']].iloc[item_indices]; each
\* returned row carries its row label
iloc(t, column, positions) ==
    [k \in DOMAIN positions |->
        [label    |-> t.index[positions[k] + 1],
         ID       |-> t.data[positions[k] + 1][ColPos(t, "ID")],
         text     |-> t.data[positions[k] + 1][ColPos(t, column)],
         Deadline |-> t.data[positions[k] + 1][ColPos(t, "Deadline")]]]

Returned(rows) == [kind |-> "ok", rows |-> rows]
Raised(kind) == [kind |-> kind, rows |-> <<>>]
NoResult == [kind |-> "none", rows |-> <<>>]

\* lines 86-113 as a function of the arguments
get_recommendations(ttl, sim, t, column, n) ==
    IF ~valid_top_n(n) THEN Raised("Invalid-Argument")
    ELSE LET r  == reset_index(t)
             ix == indices(r, column, ttl)
         IN  IF ix = <<>> THEN Raised("Key-Not-Found")
             ELSE IF Len(ix) > 1 THEN Raised("Ambiguous-Sort")
             ELSE Returned(iloc(r, column, item_indices(sim, ix[1], n)))

----------------------------------------------------------------------------
(* Frame preparer: the parts of initialize_frame_for_recommender.          *)

\* a slip in the token check: a one-token title is let through
too_short_below_one(cleaned) == Len(split(cleaned)) < 1

\* line 137: len(cleaned_title.split()) < 2
too_short(cleaned) == Len(split(cleaned)) < 2

\* line 146: the values of the cleaned column
cleaned_values(t, column) ==
    LET col == Column(t, column) IN [i \in DOMAIN col |-> cleaner(col[i])]

\* line 149: cleaned_title in df['cleaned_column'].tolist()[:-1]
is_duplicate(cleaned, t) ==
    LET cc == Column(t, "cleaned_column")
    IN  cleaned # <<>> /\ \E i \in 1..(Len(cc) - 1) : cc[i] = cleaned

\* lines 130-155 as a function of the arguments, t the table passed in
initialize_frame_for_recommender(t, ttl, column, n, ns) ==
    IF ns /\ too_short(cleaner(ttl)) THEN Raised("Insufficient-Input")
    ELSE IF ns /\ ~new_row_fits(t) THEN Raised("Shape-Mismatch")
    ELSE LET t1 == IF ns THEN append(t, new_row_values(ttl)) ELSE t
             t2 == SetColumn(t1, "cleaned_column", cleaned_values(t1, column))
         IN  IF ns /\ is_duplicate(cleaner(ttl), t2) THEN Raised("Duplicate-Input")
             ELSE IF empty_vocabulary(Column(t2, "cleaned_column"))
                  THEN Raised("Empty-Vocabulary")
             ELSE get_recommendations(
                      ttl, dataframe_column_to_cosine_sim(t2, "cleaned_column"),
                      t2, column, n)

----------------------------------------------------------------------------
(* The inputs of the model.                                                *)

FixTheServer == <<"F","i","x"," ","t","h","e"," ","s","e","r","v","e","r">>
ServerFix    == <<"s","e","r","v","e","r"," ","f","i","x">>
CallSystem   == <<"c","a","l","l"," ","s","y","s","t","e","m">>
PlanFix      == <<"p","l","a","n"," ","f","i","x">>
FixServer    == <<"f","i","x"," ","s","e","r","v","e","r">>
Task         == <<"T","a","s","k">>
The          == <<"T","h","e">>

\* the texts a row of the caller's table may hold
Texts == {FixTheServer, ServerFix, CallSystem, PlanFix}

\* the titles a call may pass: texts of rows, a text that cleans to the text
\* of a row, and texts that clean to one token and to none
Titles == {FixTheServer, ServerFix, CallSystem, FixServer, Task, The}

\* the values of top_n a call may pass
TopNs == {0, 1, 2, 19, 20}

\* the designated text column
TextColumn == "Task"

columns4 == <<"ID", "Task", "Deadline", "Note">>

\* the table whose text column holds the given texts, under a dense row
\* index or under the labels of a table cut from a larger one
MakeTable(texts, dense) ==
    [columns |-> columns4,
     index   |-> [i \in DOMAIN texts |-> IF dense THEN i - 1 ELSE 10 * i],
     data    |-> [i \in DOMAIN texts |-> <<i, texts[i], "2024-01-01", "note">>]]

RECURSIVE SeqsOf(_, _)
SeqsOf(S, n) ==
    IF n = 0 THEN {<<>>}
    ELSE {Append(s, e) : s \in SeqsOf(S, n - 1), e \in S}

Tables ==
    {MakeTable(texts, dense) :
        texts \in UNION {SeqsOf(Texts, n) : n \in 1..MaxRows}, dense \in BOOLEAN}

----------------------------------------------------------------------------
(* The calls on the caller's table, step by step.                          *)

\* the table the local name df refers to
Frame == IF df = "caller" THEN caller ELSE work

\* an in-place change of df: it changes the object df refers to
StoreFrame(t) ==
    IF df = "caller"
    THEN caller' = t /\ UNCHANGED work
    ELSE work' = t /\ UNCHANGED caller

\* an exception leaves the function: the call ends with that error
Raise(kind) == result' = Raised(kind) /\ pc' = "done"

Locals == <<cleaned_title, cosine_sim, idx>>
Args == <<title, top_n, new_string>>

InitCallOn(tables) ==
    /\ caller \in tables
    /\ orig = caller
    /\ before = caller
    /\ pc = "idle"
    /\ title = <<>>
    /\ top_n = 0
    /\ new_string = FALSE
    /\ df = "caller"
    /\ work = NoFrame
    /\ cleaned_title = <<>>
    /\ cosine_sim = <<>>
    /\ idx = <<>>
    /\ result = NoResult
    /\ steps = <<>>

InitCleanIdle ==
    /\ x = <<>>
    /\ once = <<>>
    /\ twice = <<>>
    /\ stage = "off"

InitCall == InitCallOn(Tables)

Init == InitCall /\ InitCleanIdle

\* line 115: the caller calls the function on its table; line 130
Call(ttl, n, ns) ==
    /\ pc = "idle"
    /\ title' = ttl
    /\ top_n' = n
    /\ new_string' = ns
    /\ before' = caller
    /\ df' = "caller"
    /\ work' = NoFrame
    /\ cleaned_title' = <<>>
    /\ cosine_sim' = <<>>
    /\ idx' = <<>>
    /\ result' = NoResult
    /\ steps' = <<>>
    /\ pc' = "insert"
    /\ UNCHANGED <<caller, orig>>
    /\ UNCHANGED cleanVars

\* lines 132-144: the insertion check and the appended query row
Insertion ==
    /\ pc = "insert"
    /\ steps' = Append(steps, "insert")
    /\ IF new_string
       THEN /\ cleaned_title' = cleaner(title)
            /\ IF too_short(cleaner(title))
               THEN Raise("Insufficient-Input") /\ UNCHANGED <<df, work>>
               ELSE IF ~new_row_fits(Frame)
               THEN Raise("Shape-Mismatch") /\ UNCHANGED <<df, work>>
               ELSE /\ work' = append(Frame, new_row_values(title))
                    /\ df' = "work"
                    /\ pc' = "clean"
                    /\ UNCHANGED result
       ELSE /\ pc' = "clean"
            /\ UNCHANGED <<cleaned_title, df, work, result>>
    /\ UNCHANGED <<caller, orig, before, Args, cosine_sim, idx>>
    /\ UNCHANGED cleanVars

\* line 146: the cleaned column is stored in df
ColumnCleaning ==
    /\ pc = "clean"
    /\ steps' = Append(steps, "clean")
    /\ StoreFrame(SetColumn(Frame, "cleaned_column", cleaned_values(Frame, TextColumn)))
    /\ pc' = "guard"
    /\ UNCHANGED <<orig, before, Args, df, Locals, result>>
    /\ UNCHANGED cleanVars

\* lines 149-150: the duplicate guard
DuplicateGuard ==
    /\ pc = "guard"
    /\ steps' = Append(steps, "guard")
    /\ IF is_duplicate(cleaned_title, Frame)
       THEN Raise("Duplicate-Input")
       ELSE pc' = "build" /\ UNCHANGED result
    /\ UNCHANGED <<caller, orig, before, Args, df, work, Locals>>
    /\ UNCHANGED cleanVars

\* line 153: dataframe_column_to_cosine_sim(df, 'cleaned_column')
SimilarityBuild ==
    /\ pc = "build"
    /\ steps' = Append(steps, "build")
    /\ IF empty_vocabulary(Column(Frame, "cleaned_column"))
       THEN Raise("Empty-Vocabulary") /\ UNCHANGED cosine_sim
       ELSE /\ cosine_sim' = dataframe_column_to_cosine_sim(Frame, "cleaned_column")
            /\ pc' = "validate"
            /\ UNCHANGED result
    /\ UNCHANGED <<caller, orig, before, Args, df, work, cleaned_title, idx>>
    /\ UNCHANGED cleanVars

\* lines 87-91: get_recommendations checks top_n
ValidateTopN ==
    /\ pc = "validate"
    /\ steps' = Append(steps, "validate")
    /\ IF valid_top_n(top_n)
       THEN pc' = "reindex" /\ UNCHANGED result
       ELSE Raise("Invalid-Argument")
    /\ UNCHANGED <<caller, orig, before, Args, df, work, Locals>>
    /\ UNCHANGED cleanVars

\* line 94: df.reset_index(inplace=True, drop=True)
ResetIndex ==
    /\ pc = "reindex"
    /\ steps' = Append(steps, "reindex")
    /\ StoreFrame(reset_index(Frame))
    /\ pc' = "lookup"
    /\ UNCHANGED <<orig, before, Args, df, Locals, result>>
    /\ UNCHANGED cleanVars

\* lines 97-100: indices[title]
Lookup ==
    /\ pc = "lookup"
    /\ steps' = Append(steps, "lookup")
    /\ idx' = indices(Frame, TextColumn, title)
    /\ IF indices(Frame, TextColumn, title) = <<>>
       THEN Raise("Key-Not-Found")
       ELSE pc' = "rank" /\ UNCHANGED result
    /\ UNCHANGED <<caller, orig, before, Args, df, work, cleaned_title, cosine_sim>>
    /\ UNCHANGED cleanVars

\* lines 103-113: sort, slice and select; several located rows make the
\* sort compare arrays, which raises ValueError
Rank ==
    /\ pc = "rank"
    /\ steps' = Append(steps, "rank")
    /\ IF Len(idx) > 1
       THEN result' = Raised("Ambiguous-Sort")
       ELSE result' = Returned(iloc(Frame, TextColumn,
                                    item_indices(cosine_sim, idx[1], top_n)))
    /\ pc' = "done"
    /\ UNCHANGED <<caller, orig, before, Args, df, work, Locals>>
    /\ UNCHANGED cleanVars

\* the call has ended; its locals are dropped, the caller keeps its table
Return ==
    /\ pc = "done"
    /\ pc' = "idle"
    /\ title' = <<>>
    /\ top_n' = 0
    /\ new_string' = FALSE
    /\ before' = caller
    /\ df' = "caller"
    /\ work' = NoFrame
    /\ cleaned_title' = <<>>
    /\ cosine_sim' = <<>>
    /\ idx' = <<>>
    /\ result' = NoResult
    /\ steps' = <<>>
    /\ UNCHANGED <<caller, orig>>
    /\ UNCHANGED cleanVars

Next ==
    \/ \E ttl \in Titles, n \in TopNs, ns \in BOOLEAN : Call(ttl, n, ns)
    \/ Insertion
    \/ ColumnCleaning
    \/ DuplicateGuard
    \/ SimilarityBuild
    \/ ValidateTopN
    \/ ResetIndex
    \/ Lookup
    \/ Rank
    \/ Return

Spec == Init /\ [][Next]_vars

----------------------------------------------------------------------------
(* The cleaner on its own: every input built from a few pieces is cleaned, *)
(* and the result cleaned again.                                           *)

Gimme == <<"g","i","m","m","e">>
Fix   == <<"F","i","x">>

\* the pieces an input text is concatenated from: letters of both cases, a
\* digit, a space, punctuation, stop-words and the halves of a contraction
Pieces ==
    { <<"a">>, <<"T">>, <<"1">>, <<" ">>, <<"-">>, <<"'">>,
      <<"c","a","n">>, <<"n","o","t">>, Gimme, Fix }

CleanInputs == {Flatten(ps) : ps \in UNION {SeqsOf(Pieces, n) : n \in 0..MaxPieces}}

InitClean ==
    /\ InitCallOn({MakeTable(<<>>, TRUE)})
    /\ x \in CleanInputs
    /\ once = <<>>
    /\ twice = <<>>
    /\ stage = "input"

\* cleaner(x)
CleanOnce ==
    /\ stage = "input"
    /\ once' = cleaner(x)
    /\ stage' = "once"
    /\ UNCHANGED <<x, twice>>
    /\ UNCHANGED callVars

\* cleaner(cleaner(x))
CleanTwice ==
    /\ stage = "once"
    /\ twice' = cleaner(once)
    /\ stage' = "twice"
    /\ UNCHANGED <<x, once>>
    /\ UNCHANGED callVars

NextClean == CleanOnce \/ CleanTwice

SpecClean == InitClean /\ [][NextClean]_vars

----------------------------------------------------------------------------
(* The claims.                                                             *)

\* the call has returned a table of recommendations
ReturnedOk == pc = "done" /\ result.kind = "ok"

\* the row positions (labels after re-indexing) of the returned rows
ReturnedPositions == [k \in DOMAIN result.rows |-> result.rows[k].label]

\* the similarity of the row at position p to the anchor row
Score(p) == cosine_sim[idx[1] + 1][p + 1]

\* the texts of the column of the table the call was given
GivenTexts == Range(Column(before, TextColumn))

\* the cleaned title has fewer than two tokens
FewTokens == Len(split(cleaner(title))) < 2

\* the cleaned title equals the cleaned text of a row of the table given
CleansToExistingRow == \E t \in GivenTexts : cleaner(t) = cleaner(title)

OutOfRange == top_n <= 1 \/ top_n >= 20

\* on the table as first constructed, the steps end as the function of the
\* arguments does
StepsAgreeOnFresh ==
    (pc = "done" /\ before = orig) =>
        result = initialize_frame_for_recommender(orig, title, TextColumn, top_n, new_string)


\* C1: for valid top_n a returned table has at most top_n rows and never
\* holds the row located for the title (the anchor), whatever the
\* similarity matrix.
C1_AnchorNeverReturned ==
    ReturnedOk =>
        /\ Len(result.rows) <= top_n
        /\ \A k \in DOMAIN result.rows : ReturnedPositions[k] # idx[1]

\* C2: for valid top_n and a working table of N rows the call returns
\* exactly min(top_n, N-1) rows, in non-increasing order of similarity to
\* the anchor, and apart from one dropped row no row left out is more
\* similar to the anchor than a returned row.
C2_RankedTopN ==
    ReturnedOk =>
        LET N   == Len(Frame.data)
            ret == ReturnedPositions
            R   == Range(ret)
            All == 0..(N - 1)
        IN  /\ Len(ret) = (IF top_n < N - 1 THEN top_n ELSE N - 1)
            /\ Cardinality(R) = Len(ret)
            /\ R \subseteq All
            /\ \A k \in 1..(Len(ret) - 1) : Score(ret[k]) >= Score(ret[k + 1])
            /\ \E d \in All \ R :
                 \A p \in All \ (R \cup {d}) : \A r \in R : Score(p) <= Score(r)

\* C2 witness: four rows, top_n = 2: two rows come back, the first strictly
\* more similar than the second, another row is left out, the anchor dropped
C2_Witness ==
    /\ ReturnedOk
    /\ Len(Frame.data) = 4
    /\ top_n = 2
    /\ Len(result.rows) = 2
    /\ Score(ReturnedPositions[1]) > Score(ReturnedPositions[2])
    /\ idx[1] \notin Range(ReturnedPositions)

\* C3: get_recommendations raises Invalid-Argument exactly when top_n <= 1
\* or top_n >= 20, and it does so before the table is re-indexed and before
\* the title is looked up, also when the title is absent from the column.
C3_TopNValidated ==
    /\ (pc = "done" /\ "validate" \in Range(steps)) =>
           (result.kind = "Invalid-Argument" <=> OutOfRange)
    /\ pc \in {"reindex", "lookup", "rank"} => ~OutOfRange
    /\ result.kind = "Invalid-Argument" =>
           /\ "validate" \in Range(steps)
           /\ "reindex" \notin Range(steps)
           /\ "lookup" \notin Range(steps)
           /\ idx = <<>>
           /\ caller.index = before.index

\* C3 witness: top_n = 20 and a title absent from the column of a table
\* with its own row labels: Invalid-Argument, not Key-Not-Found
C3_Witness ==
    /\ pc = "done"
    /\ result.kind = "Invalid-Argument"
    /\ top_n = 20
    /\ ~new_string
    /\ title \notin GivenTexts
    /\ caller.index # RangeIndex(Len(caller.data))

\* C4: with new_string and a title of at least two tokens the call fails
\* with Duplicate-Input exactly when the cleaned title equals the cleaned
\* text of a row already in the table; without new_string never.
C4_DuplicateExactly ==
    /\ (pc = "done" /\ new_string /\ ~FewTokens) =>
           (result.kind = "Duplicate-Input" <=> CleansToExistingRow)
    /\ ~new_string => result.kind # "Duplicate-Input"

\* C5: with new_string and a cleaned title of fewer than two tokens the call
\* fails with Insufficient-Input before a row is appended and before a
\* column is cleaned; without new_string the error is never raised.
C5_InsufficientFirst ==
    /\ (pc = "done" /\ new_string /\ FewTokens) =>
           /\ result.kind = "Insufficient-Input"
           /\ steps = <<"insert">>
           /\ work = NoFrame
           /\ caller = before
    /\ result.kind = "Insufficient-Input" => (new_string /\ FewTokens)

\* C5 witness: the one-token title "Task" is rejected
C5_Witness ==
    /\ pc = "done"
    /\ new_string
    /\ title = Task
    /\ Len(before.data) > 0
    /\ result.kind = "Insufficient-Input"

\* C6: with unique column values and valid top_n a call fails with
\* Key-Not-Found exactly when it does not insert and its title is absent from
\* the column; an inserting call that passes both guards has the appended
\* row as its anchor.
C6_KeyNotFoundExactly ==
    (pc = "done" /\ ~OutOfRange
       /\ Cardinality(GivenTexts) = Len(before.data)) =>
        /\ result.kind = "Key-Not-Found" <=> (~new_string /\ title \notin GivenTexts)
        /\ (new_string /\ "build" \in Range(steps)) =>
               /\ result.kind # "Key-Not-Found"
               /\ idx # <<>> => idx = <<Len(work.data) - 1>>

\* C7: when a call ends, with rows or with an error, the table object the
\* caller passed has the rows, columns and row index it had before the call.
C7_CallerTableUntouched == pc = "done" => caller = before

\* C8: cleaner is idempotent, and its output is a single-space-joined
\* sequence of lower-case alphanumeric tokens none of which is a stop-word.
C8_CleanerIdempotent ==
    stage = "twice" =>
        /\ twice = once
        /\ once = join(split(once))
        /\ \A i \in DOMAIN once : once[i] \in Range(LowerLetters) \cup Digits \cup {" "}
        /\ \A tok \in Range(split(once)) : tok \notin stopwords_english

\* C8 witness: "gimme Fix" is lower-cased, its contraction split and the
\* stop-word half dropped; cleaning the result again has been done
C8_Witness ==
    /\ stage = "twice"
    /\ x = Gimme \o <<" ">> \o Fix
    /\ once = <<"g","i","m"," ","f","i","x">>

\* C9: the steps run in one fixed order, a call that violates several
\* conditions reports the first of Insufficient-Input, Duplicate-Input,
\* Invalid-Argument, Key-Not-Found, and Invalid-Argument is reported only
\* after insertion, cleaning and the similarity build.
C9_ErrorPrecedence ==
    LET order == <<"insert", "clean", "guard", "build", "validate",
                   "reindex", "lookup", "rank">>
        insufficient == new_string /\ FewTokens
        duplicate    == new_string /\ CleansToExistingRow
        missing      == ~new_string /\ title \notin GivenTexts
    IN  /\ Len(steps) <= Len(order) /\ steps = SubSeq(order, 1, Len(steps))
        /\ result.kind = "Invalid-Argument" =>
               steps = <<"insert", "clean", "guard", "build", "validate">>
        /\ pc = "done" =>
            /\ insufficient => result.kind = "Insufficient-Input"
            /\ (~insufficient /\ duplicate) => result.kind = "Duplicate-Input"
            /\ (~insufficient /\ ~duplicate /\ OutOfRange) =>
                   result.kind = "Invalid-Argument"
            /\ (~insufficient /\ ~duplicate /\ ~OutOfRange /\ missing) =>
                   result.kind = "Key-Not-Found"

\* C10: a call ends as it would as the first call on a fresh copy of the
\* table the caller first constructed, whatever calls were made before.
C10_OutcomeIgnoresHistory ==
    pc = "done" =>
        result = initialize_frame_for_recommender(orig, title, TextColumn, top_n, new_string)

============================================================================
